---- MODULE Spec2Model ----
(***************************************************************************)
(* Guardian intrusion prevention daemon: the Windows firewall provider     *)
(* (internal/platform/windows/provider.go), its event-log scan path, its   *)
(* expiry sweeper and the host firewall they drive.                        *)
(*                                                                         *)
(* Time is a discrete clock of ticks.  The host firewall is a table of     *)
(* rules that outlives the process; the provider's block table does not.   *)
(*                                                                         *)
(* Spec follows the provider under direct calls, scans, sweeps and         *)
(* restarts; LiveSpec adds the scheduling of the sweeper; MonitorSpec      *)
(* follows the goroutines StartLogMonitoring starts; WindowSpec follows    *)
(* the Security event log and the counts a scan takes from it;             *)
(* AutoUnblockSpec and CustomThresholdSpec run the sweeps and the scans     *)
(* under the settings of blocking.auto_unblock and custom_threshold.        *)
(*                                                                         *)
(* The components beside the provider have a specification each:           *)
(* ParseSpec (the event parser on one event text), QuerySpec (the time     *)
(* bound of the event-log query), DetectorSpec (BasicThreatDetector),      *)
(* MockSpec (the mock provider under concurrent calls), DaemonSpec (start  *)
(* requests, daemon processes and the PID file) and StorageSpec            *)
(* (MemoryStorage).                                                        *)
(***************************************************************************)
EXTENDS Integers, Sequences, FiniteSets, TLC

VARIABLES
    clock,        \* time.Now(), in ticks
    config,       \* models.Config: the fields the provider reads
    blockedIPs,   \* WindowsProvider.blockedIPs: map ip -> BlockRecord
    totalBlocks,  \* WindowsProvider.totalBlocks
    firewall,     \* the host firewall's rule table (survives restarts)
    mu,           \* WindowsProvider.mu: the caller holding the lock, or NoOne
    pc,           \* position of every caller inside BlockIP
    local,        \* locals of a BlockIP call in progress (ip, duration, ruleName)
    scanPending,  \* per scanner: over-threshold IPs of the current scan not yet handled
    restarts,     \* number of process restarts so far
    result,       \* the BlockIP/UnblockIP call that returned in the most recent step, if any
    installName,  \* per ip: the rule name BlockIP gave the last successful add command
    lastCmds,     \* the firewall delete commands the most recent step issued
    ctxDone,      \* the monitoring context passed to StartLogMonitoring is cancelled
    isRunning,    \* WindowsProvider.isRunning
    scanLoop,     \* per service: position of its monitorWindowsEventLog goroutine
    scanStage,    \* per service: position inside queryRecentEvents / parseEventLogOutput
    scansRunning, \* per service: queryRecentEvents calls that have not returned
    sweepLoop,    \* per StartLogMonitoring call: position of its startCleanupScheduler goroutine
    eventLog,     \* the Security event log: the failed-logon events recorded so far
    attackCounts, \* per service: attackCounts of its most recent parseEventLogOutput
    scanBatch,    \* per service: the events its most recent wevtutil query returned
    rescanned,    \* per service: the events of scanBatch the query before returned too
    line,         \* the event text handed to WindowsEventLogParser.ParseLine
    attempt,      \* what ParseLine returned for it: the AttackAttempt, or NoAttempt
    sinceTime,    \* the window start `since` handed to queryRecentEvents (a time.Time)
    sinceStr,     \* the lower time bound queryRecentEvents put into its query
    whitelistedIPs,   \* BasicThreatDetector.whitelistedIPs: the exact addresses
    whitelistedNets,  \* BasicThreatDetector.whitelistedNets: the networks, in order
    threatConfig,     \* BasicThreatDetector.config
    detResult,    \* the detector call that returned last, with what it returned
    mockBlockedIPs,   \* mock Provider.blockedIPs: per address its blockInfo or NoBlockInfo
    mockReaders,      \* the goroutines that hold the read lock of the mock Provider's mu
    mockPc,           \* per goroutine: where it stands in IsBlocked
    mockLocal,        \* per goroutine: the ip of the IsBlocked call it is in
    mockResult,   \* the mock Provider call that returned last
    pidFile,      \* the PID the file guardian.pid holds, or NoPID when there is no file
    daemons,      \* per process ID: the state of the daemon process of that ID
    startPc,      \* per start request: where it stands in StartDaemonWithOptions
    startResult,  \* per start request: what StartDaemonWithOptions returned last
    nextAttackID, \* MemoryStorage.nextAttackID
    attacks,      \* MemoryStorage.attacks: per attack ID the stored attack or NoAttack
    attacksByIP,  \* MemoryStorage.attacksByIP: per address the attacks appended for it
    saveResult    \* the error SaveAttack returned last ("": none)

\* the monitoring goroutines
monVars == <<ctxDone, isRunning, scanLoop, scanStage, scansRunning, sweepLoop>>

\* the event log and the counts taken from it.  Spec and MonitorSpec let a
\* scan report any counts (the log may hold anything) and leave these alone.
winVars == <<eventLog, attackCounts, scanBatch, rescanned>>

\* the provider, its callers and the host firewall
provVars == <<clock, config, blockedIPs, totalBlocks, firewall, mu, pc, local,
              scanPending, restarts, result, installName, lastCmds>>

\* the event parser
parseVars == <<line, attempt>>

\* the components beside the provider, each followed by a specification of
\* its own; the provider specifications leave them alone
\* the time bound of the event-log query
queryVars == <<sinceTime, sinceStr>>

\* the threat detector
detVars == <<whitelistedIPs, whitelistedNets, threatConfig, detResult>>

\* the mock provider and the goroutines calling it
mockVars == <<mockBlockedIPs, mockReaders, mockPc, mockLocal, mockResult>>

\* the daemon manager: PID file, daemon processes, start requests
daemonVars == <<pidFile, daemons, startPc, startResult>>

\* the in-memory storage
storageVars == <<nextAttackID, attacks, attacksByIP, saveResult>>

libVars == <<parseVars, queryVars, detVars, mockVars, daemonVars, storageVars>>

vars == <<clock, config, blockedIPs, totalBlocks, firewall, mu, pc, local,
          scanPending, restarts, result, installName, lastCmds, monVars, winVars,
          libVars>>

----------------------------------------------------------------------------
(* Bounds of the model *)

NumIPs == 2            \* addresses 1 .. NumIPs are blocked and unblocked
MaxTime == 2           \* the clock stops at MaxTime
TicksPerSecond == 2    \* clock ticks per second of the {timestamp} placeholder
BlockDuration == 1     \* config.Blocking.BlockDuration, in ticks
FailureThreshold == 2  \* config.Blocking.FailureThreshold
MaxCount == 2          \* largest per-IP event count one scan reports
MaxBlocks == 2         \* cap on totalBlocks
MaxRules == 2          \* cap on the number of rules in the host firewall
MaxRestarts == 1       \* cap on process restarts
MaxScans == 2          \* cap on the queryRecentEvents calls of one service in progress
Lookback == 1          \* config.Monitoring.LookbackDuration, in ticks
QueryLimit == 2        \* the event limit of one wevtutil query ("/c:50"), scaled down
MaxConcurrentBlocks == 1  \* config.Blocking.MaxConcurrentBlocks, scaled down
MaxAttempts == 2       \* longest attack history handed to ShouldBlock
MaxDaemons == 3        \* daemon processes ever spawned
MaxSaves == 3          \* attacks one MemoryStorage takes
MaxZone == 2           \* largest offset of a time zone from UTC, in ticks
ServiceThreshold == 1  \* a service's custom_threshold when it is set

IPs == 1 .. NumIPs
BadIP == -1            \* a string net.ParseIP rejects
Nil == -1              \* a nil *time.Time
NoOne == "none"

\* the service names GetLogPaths accepts for the Security log
Services == {"rdp", "windows"}

\* the service whose scans the provider specification follows
Scanners == {"rdp"}
Callers == Services \cup {"api"}

Durations == {0, BlockDuration}

----------------------------------------------------------------------------
(* Configuration *)

\* blocking.whitelisted_ips: one exact address and one CIDR network.  A CIDR
\* entry is kept as its base address and its number of host bits.
WhitelistedIPs ==
    << [kind |-> "ip", ip |-> 6, base |-> 0, host |-> 0],
       [kind |-> "cidr", ip |-> 0, base |-> 4, host |-> 1] >>

\* the addresses failure events come from: those of IPs, none of them
\* whitelisted, and one address inside the whitelisted network
EventIPs == IPs \cup {WhitelistedIPs[2].base + 1}

DefaultTemplate == << "Guardian - ", "{timestamp}", " - ", "{ip}" >>

\* blocking.rule_name_template values the model starts with: unset (the
\* default applies), one with {ip} and no {timestamp}, one with neither.
Templates ==
    { << >>,
      << "{app}", " block ", "{ip}" >>,
      << "{app}", " ", "{service}" >> }

Pow2(n) == 2 ^ n

\* net.ParseIP(ip) != nil
ParseIPOk(ip) == ip >= 0

\* net.IPNet.Contains for the network of entry e
NetworkContains(e, ip) == (ip \div Pow2(e.host)) = (e.base \div Pow2(e.host))

isWhitelistedIP_NoCIDR(ip) ==
    /\ ParseIPOk(ip)
    /\ \E i \in DOMAIN WhitelistedIPs :
          WhitelistedIPs[i].kind = "ip" /\ WhitelistedIPs[i].ip = ip

\* WindowsProvider.isWhitelistedIP
isWhitelistedIP(ip) ==
    /\ ParseIPOk(ip)
    /\ \E i \in DOMAIN WhitelistedIPs :
          LET e == WhitelistedIPs[i] IN
          IF e.kind = "cidr" THEN NetworkContains(e, ip) ELSE e.ip = ip

\* time.Now().Format("20060102150405"): the clock truncated to whole seconds
Timestamp(now) == now \div TicksPerSecond

\* strings.ReplaceAll of one placeholder token
ReplaceToken(tok, ip, service, now) ==
    CASE tok = "{app}"       -> "Guardian"
      [] tok = "{timestamp}" -> ToString(Timestamp(now))
      [] tok = "{ip}"        -> ToString(ip)
      [] tok = "{service}"   -> service
      [] OTHER               -> tok

\* BlockingConfig.GenerateRuleName
GenerateRuleName(ip, service, now) ==
    LET template == IF config.RuleNameTemplate = << >>
                    THEN DefaultTemplate ELSE config.RuleNameTemplate
    IN [i \in DOMAIN template |-> ReplaceToken(template[i], ip, service, now)]

----------------------------------------------------------------------------
(* The host firewall (netsh advfirewall firewall ...) *)

\* The rule table is a multiset: the rules present, each with the number of
\* copies the table holds (netsh accepts a second rule of the same name).

\* netsh ... add rule name=<name> dir=in action=block remoteip=<ip>
\* description=... (GuardianTag=Guardian)
FwAddRule(fw, name, ip) ==
    LET r == [name |-> name, remoteip |-> {ip}, tagged |-> TRUE]
    IN [x \in (DOMAIN fw) \cup {r} |-> IF x = r
                                       THEN (IF r \in DOMAIN fw THEN fw[r] + 1 ELSE 1)
                                       ELSE fw[x]]

RECURSIVE FwSizeOf(_, _)
FwSizeOf(fw, rules) ==
    IF rules = {} THEN 0
    ELSE LET r == CHOOSE x \in rules : TRUE IN fw[r] + FwSizeOf(fw, rules \ {r})

\* the number of rules in the table
FwSize(fw) == FwSizeOf(fw, DOMAIN fw)

\* netsh ... delete rule name=<name> finds a rule of that name
FwMatches(fw, name) == \E r \in DOMAIN fw : r.name = name

\* netsh ... delete rule name=<name>: every rule of that name goes
FwDeleteRule(fw, name) == [x \in {r \in DOMAIN fw : r.name # name} |-> fw[x]]

guardianRuleExists_IgnoreRules(fw, ip, queryOk) == FALSE

\* WindowsProvider.guardianRuleExists: FALSE when the show command fails
guardianRuleExists(fw, ip, queryOk) ==
    /\ queryOk
    /\ \E r \in DOMAIN fw : r.tagged /\ ip \in r.remoteip

----------------------------------------------------------------------------
(* The provider's block table *)

\* models.BlockRecord as BlockIP fills it
NewBlockRecord(ip, d, now) ==
    [IP |-> ip,
     ExpiresAt |-> IF d > 0 THEN now + d ELSE Nil,
     Service |-> "RDP", AttackCount |-> 1, IsActive |-> TRUE]

\* blockedIPs[ip] = rec
MapPut(m, ip, rec) == [x \in (DOMAIN m) \cup {ip} |-> IF x = ip THEN rec ELSE m[x]]

HasActiveRecord_Unexpired(b, ip, now) ==
    /\ ip \in DOMAIN b
    /\ b[ip].IsActive
    /\ (b[ip].ExpiresAt = Nil \/ now < b[ip].ExpiresAt)

\* "existing, exists := w.blockedIPs[ip]; exists && existing.IsActive"
HasActiveRecord(b, ip, now) == ip \in DOMAIN b /\ b[ip].IsActive

\* time.Now().After(*record.ExpiresAt)
After(now, t) == now > t

\* time.Now().Before(*record.ExpiresAt)
Before(now, t) == now < t

IsBlocked_NoExpiry(ip) == ip \in DOMAIN blockedIPs /\ blockedIPs[ip].IsActive

\* WindowsProvider.IsBlocked
IsBlocked(ip) ==
    IF ip \notin DOMAIN blockedIPs THEN FALSE
    ELSE IF blockedIPs[ip].ExpiresAt # Nil /\ After(clock, blockedIPs[ip].ExpiresAt) THEN FALSE
    ELSE blockedIPs[ip].IsActive

\* WindowsProvider.ListBlockedIPs
ListBlockedIPs ==
    {ip \in DOMAIN blockedIPs :
        /\ blockedIPs[ip].IsActive
        /\ (blockedIPs[ip].ExpiresAt = Nil \/ Before(clock, blockedIPs[ip].ExpiresAt))}

RecordAfterAddError_Stored(b, ip, d, now) == MapPut(b, ip, NewBlockRecord(ip, d, now))

\* the block table when the netsh add command failed: BlockIP returns the
\* error before it builds the record
RecordAfterAddError(b, ip, d, now) == b

MarkRemoved_Always(b, ip, ok) == [b EXCEPT ![ip].IsActive = FALSE]

\* "if err := cmd.Run(); err == nil { record.IsActive = false ... }": the
\* record is marked only when the delete command succeeded
MarkRemoved(b, ip, ok) == IF ok THEN [b EXCEPT ![ip].IsActive = FALSE] ELSE b

TryLock_NoMutex(c) == TRUE

\* w.mu.Lock(): the caller proceeds only when nobody holds the lock
TryLock(c) == mu = NoOne

\* the locals of a caller that is not inside BlockIP
NoLocals == [ip |-> BadIP, duration |-> 0, ruleName |-> << >>]

NoResult == [by |-> NoOne, op |-> "none", ip |-> BadIP, err |-> "", why |-> "",
             activeBefore |-> FALSE, unexpiredBefore |-> FALSE, expiredBefore |-> FALSE]

\* what a call returned, with what the block table held for ip when the call
\* acted: an active record, one whose expiry is still ahead, one whose expiry
\* has passed
Outcome(c, op, ip, err, why) ==
    LET has == ip \in DOMAIN blockedIPs /\ blockedIPs[ip].IsActive IN
    [by |-> c, op |-> op, ip |-> ip, err |-> err, why |-> why,
     activeBefore |-> has,
     unexpiredBefore |-> (has /\ (blockedIPs[ip].ExpiresAt = Nil
                                     \/ clock < blockedIPs[ip].ExpiresAt)),
     expiredBefore |-> (has /\ blockedIPs[ip].ExpiresAt # Nil
                            /\ clock > blockedIPs[ip].ExpiresAt)]

----------------------------------------------------------------------------
(* The event parser (internal/parser/windows.go).  The text of an event is  *)
(* kept as its fields; the text after "Source Network Address:" is a        *)
(* sequence of tokens, each a run of decimal digits, a run of other         *)
(* letters, or one punctuation character.                                   *)

\* runs of decimal digits that are an IPv4 octet, and runs that are not
Octets == {"0", "1", "10", "127"}
DigitRuns == Octets \cup {"300", "2001"}

\* the source address texts the model feeds the parser (<< >>: the event
\* has no "Source Network Address:" line)
SourceTexts ==
    { << >>,
      << "-" >>,
      << "10", ".", "0", ".", "0", ".", "1" >>,
      << "127", ".", "0", ".", "0", ".", "1" >>,
      << "300", ".", "0", ".", "0", ".", "1" >>,
      << "10", ".", "0", ".", "1" >>,
      << ":", ":", "1" >>,
      << "2001", ":", ":", "1" >>,
      << "fe80", ":", ":", "1" >>,
      << ".", "." >> }

\* the texts after "Event ID:" and after "Account Name:" ("": no such line)
EventIDTexts == {"", "4625", "4624"}
AccountTexts == {"", "-", "administrator", "bob"}

Lines ==
    [eventID : EventIDTexts, source : SourceTexts, account : AccountTexts,
     time : {Nil, 0}]

NoLine == [eventID |-> "", source |-> << >>, account |-> "", time |-> Nil]

\* no ParseLine call has returned yet
NotParsed == [status |-> "pending"]

\* ParseLine returned nil and an error
NoAttempt == [status |-> "none"]

RECURSIVE CapturePrefix(_, _)
\* the capture group "([\d\.]+)" of ipRegex applied at position i of the
\* text: the longest run of digits and dots that starts there
CapturePrefix(text, i) ==
    IF i > Len(text) \/ text[i] \notin DigitRuns \cup {"."} THEN << >>
    ELSE << text[i] >> \o CapturePrefix(text, i + 1)

\* ipRegex.FindStringSubmatch: << >> when the pattern matches nowhere
IpMatch(text) == CapturePrefix(text, 1)

\* `sourceIP == "" || sourceIP == "-" || sourceIP == "127.0.0.1" || sourceIP == "::1"`
IsLocalIP(ip) ==
    \/ ip = << >>
    \/ ip = << "-" >>
    \/ ip = << "127", ".", "0", ".", "0", ".", "1" >>
    \/ ip = << ":", ":", "1" >>

\* WindowsEventLogParser.determineSeverity
determineSeverity(username) == IF username = "administrator" THEN "high" ELSE "low"

\* the username ParseLine reports
ParsedUsername(account) ==
    IF account = "" THEN "unknown"
    ELSE IF account = "-" THEN "system_account"
    ELSE account

\* WindowsEventLogParser.ParseLine
ParseLine(l, now) ==
    IF l.eventID = "" THEN NoAttempt
    ELSE IF l.eventID # "4625" THEN NoAttempt
    ELSE IF IpMatch(l.source) = << >> THEN NoAttempt
    ELSE IF IsLocalIP(IpMatch(l.source)) THEN NoAttempt
    ELSE [status |-> "attempt",
          Timestamp |-> IF l.time # Nil THEN l.time ELSE now,
          IP |-> IpMatch(l.source),
          Service |-> "RDP",
          Username |-> ParsedUsername(l.account),
          Severity |-> determineSeverity(ParsedUsername(l.account)),
          Blocked |-> FALSE]

----------------------------------------------------------------------------
(* The time bound of the event-log query (queryRecentEvents).  A time.Time  *)
(* is an instant together with the zone it is shown in; the zone is its     *)
(* offset from UTC.                                                         *)

ZoneOffsets == (0 - MaxZone) .. MaxZone

Times == [instant : (0 - Lookback) .. MaxTime, offset : ZoneOffsets]

\* the zero time.Time
ZeroTime == [instant |-> 0, offset |-> 0]

\* no text rendered yet
NoText == [wall |-> 0, suffix |-> "none"]

\* Time.UTC: the same instant shown in UTC
UTC(t) == [t EXCEPT !.offset = 0]

\* Time.Format with a layout that ends in the literal text suffix: the
\* wall-clock reading of t in its own zone, followed by the suffix
Format(t, suffix) == [wall |-> t.instant + t.offset, suffix |-> suffix]

\* the lower bound rendered in the zone since came in
sinceStr_Local(t) == Format(t, "Z")

\* `sinceUTC := since.UTC().Format("2006-01-02T15:04:05.000Z")`, `sinceStr := sinceUTC`
sinceStr_UTC(t) == Format(UTC(t), "Z")

----------------------------------------------------------------------------
(* The threat detector (BasicThreatDetector).  Addresses and whitelist      *)
(* entries are those of the provider: an address is a number or BadIP, an   *)
(* entry with a "/" is a "cidr" record, any other an "ip" record.           *)

\* the addresses ShouldBlock is asked about
DetectorIPs == {1, WhitelistedIPs[2].base + 1, WhitelistedIPs[1].ip, BadIP}

\* the lists UpdateWhitelist is called with: the empty one, the configured
\* one, one without the network, and lists with an entry that does not
\* parse in first and in second place
WhitelistInputs ==
    { << >>,
      WhitelistedIPs,
      << [kind |-> "ip", ip |-> 1, base |-> 0, host |-> 0] >>,
      << [kind |-> "ip", ip |-> BadIP, base |-> 0, host |-> 0], WhitelistedIPs[1] >>,
      << WhitelistedIPs[2], [kind |-> "cidr", ip |-> 0, base |-> BadIP, host |-> 1] >> }

\* net.ParseCIDR(ipStr) succeeds
ParseCIDROk(e) == ParseIPOk(e.base)

\* models.Severity values and NewBasicThreatDetector's default multipliers
Severities == {"low", "high"}
SeverityMultipliers == [s \in {"low", "medium", "high", "critical"} |->
    CASE s = "low" -> 1 [] s = "medium" -> 2 [] s = "high" -> 3 [] s = "critical" -> 5]

\* the attack histories ShouldBlock is called with
Attempts == [Timestamp : 0 .. MaxTime, Severity : Severities]
AttemptLists == UNION {[1 .. n -> Attempts] : n \in 0 .. MaxAttempts}

\* no detector call has returned
NoCall == [op |-> "none"]

RECURSIVE updateWhitelistFrom(_, _, _, _)
\* the loop of updateWhitelist from entry i on, with the maps built so far
updateWhitelistFrom(ips, i, exact, nets) ==
    IF i > Len(ips) THEN [whitelistedIPs |-> exact, whitelistedNets |-> nets, err |-> ""]
    ELSE IF ips[i].kind = "cidr"
    THEN IF ~ParseCIDROk(ips[i])
         THEN [whitelistedIPs |-> exact, whitelistedNets |-> nets, err |-> "invalid CIDR network"]
         ELSE updateWhitelistFrom(ips, i + 1, exact, Append(nets, ips[i]))
    ELSE IF ~ParseIPOk(ips[i].ip)
         THEN [whitelistedIPs |-> exact, whitelistedNets |-> nets, err |-> "invalid IP address"]
         ELSE updateWhitelistFrom(ips, i + 1, exact \cup {ips[i].ip}, nets)

\* BasicThreatDetector.updateWhitelist: the maps are emptied, then filled
updateWhitelist(ips) == updateWhitelistFrom(ips, 1, {}, << >>)

\* BasicThreatDetector.IsWhitelisted on the maps exact and nets
IsWhitelistedIn(exact, nets, ip) ==
    \/ ip \in exact
    \/ /\ ParseIPOk(ip)
       /\ \E i \in DOMAIN nets : NetworkContains(nets[i], ip)

\* BasicThreatDetector.IsWhitelisted
IsWhitelisted(ip) == IsWhitelistedIn(whitelistedIPs, whitelistedNets, ip)

\* `now.Sub(attempt.Timestamp) <= d.config.LookbackDuration`
IsRecent(a, now) == now - a.Timestamp <= threatConfig.LookbackDuration

RECURSIVE SeverityScore(_, _, _)
\* totalSeverityScore after the loop over attempts from index i on
SeverityScore(attempts, i, now) ==
    IF i > Len(attempts) THEN 0
    ELSE (IF IsRecent(attempts[i], now) THEN SeverityMultipliers[attempts[i].Severity] ELSE 0)
         + SeverityScore(attempts, i + 1, now)

RECURSIVE RecentAttempts(_, _, _)
\* recentAttempts after the loop over attempts from index i on
RecentAttempts(attempts, i, now) ==
    IF i > Len(attempts) THEN 0
    ELSE (IF IsRecent(attempts[i], now) THEN 1 ELSE 0) + RecentAttempts(attempts, i + 1, now)

ShouldBlock_NoWhitelist(ip, attempts, now) ==
    /\ Len(attempts) # 0
    /\ \/ RecentAttempts(attempts, 1, now) >= threatConfig.FailureThreshold
       \/ SeverityScore(attempts, 1, now) >= threatConfig.FailureThreshold * 2

\* BasicThreatDetector.ShouldBlock
ShouldBlock(ip, attempts, now) ==
    /\ ~IsWhitelisted(ip)
    /\ Len(attempts) # 0
    /\ \/ RecentAttempts(attempts, 1, now) >= threatConfig.FailureThreshold
       \/ SeverityScore(attempts, 1, now) >= threatConfig.FailureThreshold * 2

----------------------------------------------------------------------------
(* The mock provider (internal/platform/mock).  BlockIP and UnblockIP hold  *)
(* the write lock of p.mu from their first statement to their return, so    *)
(* each is one step that needs the lock free.  IsBlocked takes the read     *)
(* lock, gives it up to take the write lock for its cleanup, and takes the  *)
(* read lock again before it returns.                                       *)

\* the goroutines that call the mock provider
Goroutines == {"g1", "g2"}

\* the durations BlockIP is called with (0: a permanent block)
MockDurations == {0, BlockDuration}

\* no entry for the address in p.blockedIPs
NoBlockInfo == [exists |-> FALSE, blockedAt |-> 0, duration |-> 0]

\* `info.duration > 0 && time.Since(info.blockedAt) > info.duration`
MockExpired(info, now) == info.duration > 0 /\ now - info.blockedAt > info.duration

----------------------------------------------------------------------------
(* The daemon manager (internal/daemon): start requests, the daemon         *)
(* processes they spawn, and the PID file.                                  *)

\* the process IDs daemon processes get
PIDs == 1 .. MaxDaemons

\* the `guardian monitor -d` invocations
StartRequests == {"cli1", "cli2"}

\* os.ReadFile(pm.pidFile) fails: there is no PID file
NoPID == 0

\* PIDManager.isProcessRunning: a process of that ID exists
isProcessRunning(pid) == daemons[pid] \in {"spawned", "monitoring"}

\* what PIDManager.GetRunningPID reports
GetRunningPID_Running == pidFile # NoPID /\ isProcessRunning(pidFile)

----------------------------------------------------------------------------
(* The in-memory storage (MemoryStorage): the attack table and its per-IP   *)
(* index.                                                                   *)

\* the IDs attacks are saved under: those the storage assigns within
\* MaxSaves saves; ID 0 is "not set"
AttackIDs == 1 .. MaxSaves

\* no attack stored under the ID
NoAttack == [ID |-> 0, IP |-> BadIP, Timestamp |-> Nil]

\* the attacks SaveAttack is called with (Timestamp Nil: the zero time)
SaveInputs == [ID : 0 .. MaxSaves, IP : IPs \cup {BadIP}, Timestamp : {Nil, 1}]

\* AttackAttempt.IsValidIP
IsValidIP(a) == ParseIPOk(a.IP)

\* "if attempt.ID == 0 { attempt.ID = m.nextAttackID ... }"
SaveID(a, next) == IF a.ID = 0 THEN next ELSE a.ID

RECURSIVE IndexSizeOf(_, _)
IndexSizeOf(byIP, ips) ==
    IF ips = {} THEN 0
    ELSE LET ip == CHOOSE x \in ips : TRUE IN Len(byIP[ip]) + IndexSizeOf(byIP, ips \ {ip})

\* the number of attacks the per-IP index holds
IndexSize(byIP) == IndexSizeOf(byIP, DOMAIN byIP)

----------------------------------------------------------------------------
(* Initial state: NewWindowsProvider on a host with an empty rule table *)

\* the configurations the provider specifications start with:
\* blocking.auto_unblock and the RDP service's custom_threshold as
\* DefaultConfig sets them
DefaultConfigs == [RuleNameTemplate : Templates, AutoUnblock : {TRUE}, CustomThreshold : {0}]

\* NewWindowsProvider(config) for a configuration out of configs
ProviderInit(configs) ==
    /\ clock = 0
    /\ config \in configs
    /\ blockedIPs = << >>
    /\ totalBlocks = 0
    /\ firewall = << >>
    /\ mu = NoOne
    /\ pc = [c \in Callers |-> "idle"]
    /\ local = [c \in Callers |-> NoLocals]
    /\ scanPending = [s \in Services |-> {}]
    /\ restarts = 0
    /\ result = NoResult
    /\ installName = [ip \in EventIPs |-> << >>]
    /\ lastCmds = {}
    /\ ctxDone = FALSE
    /\ isRunning = FALSE
    /\ scanLoop = [svc \in Services |-> "none"]
    /\ scanStage = [svc \in Services |-> "none"]
    /\ scansRunning = [svc \in Services |-> 0]
    /\ sweepLoop = [svc \in Services |-> "none"]
    /\ eventLog = {}
    /\ attackCounts = [svc \in Services |-> [ip \in EventIPs |-> 0]]
    /\ scanBatch = [svc \in Services |-> {}]
    /\ rescanned = [svc \in Services |-> {}]

\* the components beside the provider at rest
ParseIdle ==
    /\ line = NoLine
    /\ attempt = NotParsed

QueryIdle ==
    /\ sinceTime = ZeroTime
    /\ sinceStr = NoText

DetectorIdle ==
    /\ whitelistedIPs = {}
    /\ whitelistedNets = << >>
    /\ threatConfig = [FailureThreshold |-> FailureThreshold, LookbackDuration |-> Lookback]
    /\ detResult = NoCall

\* mock.New: nothing blocked, no call in progress
MockIdle ==
    /\ mockBlockedIPs = [ip \in IPs |-> NoBlockInfo]
    /\ mockReaders = {}
    /\ mockPc = [g \in Goroutines |-> "idle"]
    /\ mockLocal = [g \in Goroutines |-> BadIP]
    /\ mockResult = NoCall

\* no PID file, no daemon process, no start request under way
DaemonIdle ==
    /\ pidFile = NoPID
    /\ daemons = [p \in PIDs |-> "none"]
    /\ startPc = [r \in StartRequests |-> "idle"]
    /\ startResult = [r \in StartRequests |-> "none"]

\* NewMemoryStorage
StorageIdle ==
    /\ nextAttackID = 1
    /\ attacks = [id \in AttackIDs |-> NoAttack]
    /\ attacksByIP = [ip \in IPs |-> << >>]
    /\ saveResult = ""

LibIdle == ParseIdle /\ QueryIdle /\ DetectorIdle /\ MockIdle /\ DaemonIdle /\ StorageIdle

InitWith(configs) == ProviderInit(configs) /\ LibIdle

Init == InitWith(DefaultConfigs)

----------------------------------------------------------------------------
(* BlockIP *)

\* BlockIP from w.mu.Lock() to the return of the netsh add command.  Every
\* early return releases the lock; after a successful add the caller still
\* holds it and goes on to write the record (BlockIPRecord).
BlockIPBegin(c, ip, d) ==
    /\ pc[c] = "idle"
    /\ TryLock(c)
    /\ LET ruleName == GenerateRuleName(ip, "RDP", clock) IN
         IF ~ParseIPOk(ip) THEN
            /\ result' = Outcome(c, "BlockIP", ip, "INVALID_IP", "")
            /\ UNCHANGED <<blockedIPs, firewall, mu, pc, local, installName>>
         ELSE IF HasActiveRecord(blockedIPs, ip, clock) THEN
            /\ result' = Outcome(c, "BlockIP", ip, "IP_ALREADY_BLOCKED", "record")
            /\ UNCHANGED <<blockedIPs, firewall, mu, pc, local, installName>>
         ELSE \E queryOk \in BOOLEAN :
            IF guardianRuleExists(firewall, ip, queryOk) THEN
               /\ result' = Outcome(c, "BlockIP", ip, "IP_ALREADY_BLOCKED", "firewall")
               /\ UNCHANGED <<blockedIPs, firewall, mu, pc, local, installName>>
            ELSE \E addOk \in BOOLEAN :
               IF ~addOk THEN
                  /\ result' = Outcome(c, "BlockIP", ip, "FIREWALL_OPERATION", "")
                  /\ blockedIPs' = RecordAfterAddError(blockedIPs, ip, d, clock)
                  /\ UNCHANGED <<firewall, mu, pc, local, installName>>
               ELSE
                  /\ totalBlocks < MaxBlocks
                  /\ FwSize(firewall) < MaxRules
                  /\ firewall' = FwAddRule(firewall, ruleName, ip)
                  /\ mu' = c
                  /\ pc' = [pc EXCEPT ![c] = "record"]
                  /\ local' = [local EXCEPT ![c] =
                                  [ip |-> ip, duration |-> d, ruleName |-> ruleName]]
                  /\ installName' = [installName EXCEPT ![ip] = ruleName]
                  /\ result' = NoResult
                  /\ UNCHANGED blockedIPs
    /\ lastCmds' = {}
    /\ UNCHANGED <<clock, config, totalBlocks, restarts, monVars, winVars, libVars>>

\* BlockIP after the add command succeeded: expiry, record, counter, unlock
BlockIPRecord(c) ==
    /\ pc[c] = "record"
    /\ LET ip == local[c].ip IN
         /\ result' = Outcome(c, "BlockIP", ip, "", "")
         /\ blockedIPs' = MapPut(blockedIPs, ip, NewBlockRecord(ip, local[c].duration, clock))
    /\ totalBlocks' = totalBlocks + 1
    /\ mu' = IF mu = c THEN NoOne ELSE mu
    /\ pc' = [pc EXCEPT ![c] = "idle"]
    /\ local' = [local EXCEPT ![c] = NoLocals]
    /\ lastCmds' = {}
    /\ UNCHANGED <<clock, config, firewall, scanPending, restarts, installName,
                   monVars, winVars, libVars>>

\* a direct call of the provider's BlockIP
ApiBlockIP ==
    /\ \E ip \in IPs \cup {BadIP}, d \in Durations : BlockIPBegin("api", ip, d)
    /\ UNCHANGED scanPending

----------------------------------------------------------------------------
(* UnblockIP *)

NotBlocked_MissingOnly(b, ip) == ip \notin DOMAIN b

\* "blockRecord, exists := w.blockedIPs[ip]; if !exists || !blockRecord.IsActive"
NotBlocked(b, ip) == ip \notin DOMAIN b \/ ~b[ip].IsActive

\* WindowsProvider.UnblockIP
UnblockIP(c, ip) ==
    /\ pc[c] = "idle"
    /\ TryLock(c)
    /\ \E delOk \in BOOLEAN :
         LET ruleName == GenerateRuleName(ip, "RDP", clock)
             cmd == [ip |-> ip, name |-> ruleName, by |-> "unblock", cmdOk |-> delOk,
                     installed |-> installName[ip]]
         IN
         IF NotBlocked(blockedIPs, ip) THEN
            /\ result' = Outcome(c, "UnblockIP", ip, "IP_NOT_BLOCKED", "")
            /\ lastCmds' = {}
            /\ UNCHANGED <<firewall, blockedIPs, installName>>
         ELSE IF ~(delOk /\ FwMatches(firewall, ruleName)) THEN
            /\ result' = Outcome(c, "UnblockIP", ip, "FIREWALL_OPERATION", "")
            /\ lastCmds' = {cmd}
            /\ blockedIPs' = MarkRemoved(blockedIPs, ip, FALSE)
            /\ UNCHANGED <<firewall, installName>>
         ELSE
            /\ firewall' = FwDeleteRule(firewall, ruleName)
            /\ blockedIPs' = MarkRemoved(blockedIPs, ip, TRUE)
            /\ result' = Outcome(c, "UnblockIP", ip, "", "")
            /\ lastCmds' = {cmd}
            /\ installName' = [installName EXCEPT ![ip] = << >>]
    /\ UNCHANGED <<clock, config, totalBlocks, mu, pc, local, scanPending, restarts,
                   monVars, winVars, libVars>>

\* a direct call of the provider's UnblockIP
ApiUnblockIP == \E ip \in IPs : UnblockIP("api", ip)

----------------------------------------------------------------------------
(* The expiry sweeper *)

\* the orders in which a range over a map with key set S can visit its keys
Orders(S) == {f \in [1 .. Cardinality(S) -> S] : \A i, j \in DOMAIN f : i # j => f[i] # f[j]}

IsExpiredActive_NoExpiryCheck(rec, now) == rec.IsActive

\* "record.IsActive && record.ExpiresAt != nil" and "currentTime.After(*record.ExpiresAt)"
IsExpiredActive(rec, now) == rec.IsActive /\ rec.ExpiresAt # Nil /\ After(now, rec.ExpiresAt)

RECURSIVE CleanupLoop(_, _, _, _, _)
\* the loop of cleanupExpiredRules over blockedIPs in the order "order";
\* okSet holds the IPs whose delete command does not fail for outside reasons
CleanupLoop(order, i, st, okSet, now) ==
    IF i > Len(order) THEN st
    ELSE LET ip == order[i]
             rec == st.b[ip]
             ruleName == GenerateRuleName(ip, "RDP", now)
             ok == ip \in okSet /\ FwMatches(st.f, ruleName)
             cmd == [ip |-> ip, name |-> ruleName, by |-> "sweep", cmdOk |-> ip \in okSet,
                     installed |-> installName[ip]]
         IN IF IsExpiredActive(rec, now)
            THEN CleanupLoop(order, i + 1,
                     [b |-> MarkRemoved(st.b, ip, ok),
                      f |-> IF ok THEN FwDeleteRule(st.f, ruleName) ELSE st.f,
                      cmds |-> st.cmds \cup {cmd},
                      removed |-> IF ok THEN st.removed \cup {ip} ELSE st.removed],
                     okSet, now)
            ELSE CleanupLoop(order, i + 1, st, okSet, now)

\* one run of cleanupExpiredRules under the lock
CleanupRun(order, okSet) ==
    /\ TryLock("sweeper")
    /\ LET st == CleanupLoop(order, 1,
                             [b |-> blockedIPs, f |-> firewall, cmds |-> {}, removed |-> {}],
                             okSet, clock)
       IN /\ blockedIPs' = st.b
          /\ firewall' = st.f
          /\ lastCmds' = st.cmds
          /\ installName' = [ip \in EventIPs |->
                                IF ip \in st.removed THEN << >> ELSE installName[ip]]
    /\ result' = NoResult
    /\ UNCHANGED <<clock, config, totalBlocks, mu, pc, local, scanPending, restarts,
                   monVars, winVars, libVars>>

\* WindowsProvider.cleanupExpiredRules, run by the cleanup scheduler's ticker
cleanupExpiredRules ==
    \E order \in Orders(DOMAIN blockedIPs), okSet \in SUBSET (DOMAIN blockedIPs) :
       CleanupRun(order, okSet)

\* a run of cleanupExpiredRules in which no delete command fails for outside reasons
CleanupAllOk == \E order \in Orders(DOMAIN blockedIPs) : CleanupRun(order, DOMAIN blockedIPs)

----------------------------------------------------------------------------
(* The event-log scan path (events == nil) *)

\* "threshold := FailureThreshold; if threshold <= 0 { threshold = 1 }" for a
\* configured blocking.failure_threshold of ft
ThresholdOf(ft) == IF ft <= 0 THEN 1 ELSE ft

\* the threshold of the configuration the model runs with
Threshold == ThresholdOf(FailureThreshold)

OverThresholdAt_Exact(counts, th) == {ip \in DOMAIN counts : counts[ip] = th}

\* the IPs the loop over attackCounts does not pass over at threshold th:
\* "if count < threshold { continue }"
OverThresholdAt(counts, th) == {ip \in DOMAIN counts : ~(counts[ip] < th)}

\* the IPs one parseEventLogOutput with these counts calls BlockIP for when
\* blocking.failure_threshold is ft
ScanTargets(counts, ft) ==
    {ip \in OverThresholdAt(counts, ThresholdOf(ft)) : ~isWhitelistedIP(ip)}

\* one tick of monitorWindowsEventLog: queryRecentEvents and the counting
\* part of parseEventLogOutput.  A failed wevtutil query returns before
\* anything is parsed (first disjunct); otherwise counts is attackCounts
\* (an IP with no event in the batch behaves as one below the threshold).
ScanQuery(s) ==
    /\ pc[s] = "idle"
    /\ scanPending[s] = {}
    /\ \/ scanPending' = scanPending
       \/ \E counts \in [EventIPs -> 1 .. MaxCount] :
            scanPending' = [scanPending EXCEPT ![s] = OverThresholdAt(counts, Threshold)]
    /\ result' = NoResult
    /\ lastCmds' = {}
    /\ UNCHANGED <<clock, config, blockedIPs, totalBlocks, firewall, mu, pc, local,
                   restarts, installName, monVars, winVars, libVars>>

\* the loop over attackCounts: a whitelisted IP is skipped
ScanSkipWhitelisted(s) ==
    /\ pc[s] = "idle"
    /\ \E ip \in scanPending[s] :
         /\ isWhitelistedIP(ip)
         /\ scanPending' = [scanPending EXCEPT ![s] = @ \ {ip}]
         /\ result' = Outcome(s, "skip", ip, "", "whitelist")
    /\ lastCmds' = {}
    /\ UNCHANGED <<clock, config, blockedIPs, totalBlocks, firewall, mu, pc, local,
                   restarts, installName, monVars, winVars, libVars>>

PendingAfterBlockError_Abort(pending, ip) == {}

\* "if err := w.BlockIP(...); err != nil { logger.Warn(...) }": the loop
\* goes on with the IPs it has not handled yet
PendingAfterBlockError(pending, ip) == pending \ {ip}

\* the loop over attackCounts: BlockIP for an over-threshold IP
ScanBlockIP(s) ==
    \E ip \in scanPending[s] :
       /\ ~isWhitelistedIP(ip)
       /\ BlockIPBegin(s, ip, BlockDuration)
       /\ scanPending' = [scanPending EXCEPT ![s] =
                             IF result'.err # "" THEN PendingAfterBlockError(@, ip)
                                                 ELSE @ \ {ip}]

----------------------------------------------------------------------------
(* Environment *)

\* time passes
Tick ==
    /\ clock < MaxTime
    /\ clock' = clock + 1
    /\ result' = NoResult
    /\ lastCmds' = {}
    /\ UNCHANGED <<config, blockedIPs, totalBlocks, firewall, mu, pc, local, scanPending,
                   restarts, installName, monVars, winVars, libVars>>

\* the process stops and NewWindowsProvider runs again: the block table is
\* empty, the host firewall keeps its rules
Restart ==
    /\ restarts < MaxRestarts
    /\ restarts' = restarts + 1
    /\ blockedIPs' = << >>
    /\ totalBlocks' = 0
    /\ mu' = NoOne
    /\ pc' = [c \in Callers |-> "idle"]
    /\ local' = [c \in Callers |-> NoLocals]
    /\ scanPending' = [s \in Services |-> {}]
    /\ result' = NoResult
    /\ lastCmds' = {}
    /\ installName' = [ip \in EventIPs |-> << >>]
    /\ UNCHANGED <<clock, config, firewall, monVars, winVars, libVars>>

Next ==
    \/ ApiBlockIP
    \/ \E c \in Callers : BlockIPRecord(c)
    \/ ApiUnblockIP
    \/ cleanupExpiredRules
    \/ \E s \in Scanners : ScanQuery(s)
    \/ \E s \in Scanners : ScanSkipWhitelisted(s)
    \/ \E s \in Scanners : ScanBlockIP(s)
    \/ Tick
    \/ Restart

Spec == Init /\ [][Next]_vars

\* The provider driven by direct calls only, with the scheduling the code
\* gives: time passes, a BlockIP that holds the lock finishes, and the cleanup
\* ticker keeps firing, again and again with every delete command working.
LiveNext ==
    \/ ApiBlockIP
    \/ BlockIPRecord("api")
    \/ cleanupExpiredRules
    \/ Tick
    \/ Restart

LiveSpec ==
    /\ Init
    /\ [][LiveNext]_vars
    /\ WF_vars(Tick)
    /\ WF_vars(BlockIPRecord("api"))
    /\ SF_vars(CleanupAllOk)

----------------------------------------------------------------------------
(* The monitoring goroutines: Manager.RunMonitorWithOptions calls           *)
(* StartLogMonitoring once for every log path of every enabled service, and *)
(* every call starts one monitorWindowsEventLog goroutine and one           *)
(* startCleanupScheduler goroutine.                                         *)

\* the IPs the loop over attackCounts goes on to handle: "if count < threshold { continue }"
OverThreshold(counts) == OverThresholdAt(counts, Threshold)

\* WindowsProvider.StartLogMonitoring for the log path of service svc
StartLogMonitoring(svc) ==
    /\ scanLoop[svc] = "none"
    /\ TryLock(svc)
    /\ isRunning' = TRUE
    /\ scanLoop' = [scanLoop EXCEPT ![svc] = "select"]
    /\ sweepLoop' = [sweepLoop EXCEPT ![svc] = "select"]
    /\ result' = NoResult
    /\ lastCmds' = {}
    /\ UNCHANGED <<clock, config, blockedIPs, totalBlocks, firewall, mu, pc, local,
                   scanPending, restarts, installName, ctxDone, scanStage, scansRunning,
                   winVars, libVars>>

LoopAfterDispatch_Async == "select"

\* where the monitor loop is once it has dispatched a tick: inside the call
\* "w.queryRecentEvents(...)", which it makes itself and waits for
LoopAfterDispatch == "call"

\* monitorWindowsEventLog: the select takes "case <-ticker.C" (with the
\* context cancelled as well, Go's select may still take this case) and
\* queryRecentEvents starts its wevtutil command.  The command is started
\* with exec.Command and no timeout: it returns, or it never does.
ScanDispatch(svc) ==
    /\ scanLoop[svc] = "select"
    /\ scansRunning[svc] < MaxScans
    /\ scanLoop' = [scanLoop EXCEPT ![svc] = LoopAfterDispatch]
    /\ scansRunning' = [scansRunning EXCEPT ![svc] = @ + 1]
    /\ \E hangs \in BOOLEAN :
          scanStage' = [scanStage EXCEPT ![svc] = IF hangs THEN "hung" ELSE "query"]
    /\ result' = NoResult
    /\ lastCmds' = {}
    /\ UNCHANGED <<clock, config, blockedIPs, totalBlocks, firewall, mu, pc, local,
                   scanPending, restarts, installName, ctxDone, isRunning, sweepLoop,
                   winVars, libVars>>

PendingAfterQueryError_ParsedAnyway(pending, svc) == [pending EXCEPT ![svc] = IPs]

\* "output, err := cmd.Output(); if err != nil { ...; return }": nothing is
\* parsed and no IP is taken up for blocking
PendingAfterQueryError(pending, svc) == pending

\* cmd.Output() returns: with an error queryRecentEvents returns at once,
\* otherwise parseEventLogOutput counts the events and keeps the IPs at or
\* above the threshold
QueryReturn(svc) ==
    /\ scanStage[svc] = "query"
    /\ \/ /\ scanStage' = [scanStage EXCEPT ![svc] = "failed"]
          /\ scanPending' = PendingAfterQueryError(scanPending, svc)
       \/ /\ scanStage' = [scanStage EXCEPT ![svc] = "parse"]
          /\ \E counts \in [EventIPs -> 1 .. MaxCount] :
                scanPending' = [scanPending EXCEPT ![svc] = OverThreshold(counts)]
    /\ result' = NoResult
    /\ lastCmds' = {}
    /\ UNCHANGED <<clock, config, blockedIPs, totalBlocks, firewall, mu, pc, local,
                   restarts, installName, ctxDone, isRunning, scanLoop, scansRunning,
                   sweepLoop, winVars, libVars>>

\* parseEventLogOutput and queryRecentEvents return to the monitor loop
ScanReturn(svc) ==
    /\ scanStage[svc] \in {"parse", "failed"}
    /\ scanPending[svc] = {}
    /\ pc[svc] = "idle"
    /\ scanStage' = [scanStage EXCEPT ![svc] = "none"]
    /\ scansRunning' = [scansRunning EXCEPT ![svc] = @ - 1]
    /\ scanLoop' = [scanLoop EXCEPT ![svc] = IF @ = "call" THEN "select" ELSE @]
    /\ result' = NoResult
    /\ lastCmds' = {}
    /\ UNCHANGED <<clock, config, blockedIPs, totalBlocks, firewall, mu, pc, local,
                   scanPending, restarts, installName, ctxDone, isRunning, sweepLoop,
                   winVars, libVars>>

\* monitorWindowsEventLog: the select takes "case <-ctx.Done()"
ScannerExit(svc) ==
    /\ scanLoop[svc] = "select"
    /\ ctxDone
    /\ scanLoop' = [scanLoop EXCEPT ![svc] = "exited"]
    /\ result' = NoResult
    /\ lastCmds' = {}
    /\ UNCHANGED <<clock, config, blockedIPs, totalBlocks, firewall, mu, pc, local,
                   scanPending, restarts, installName, ctxDone, isRunning, scanStage,
                   scansRunning, sweepLoop, winVars, libVars>>

\* startCleanupScheduler: the select takes "case <-ticker.C"
SweeperRun(svc) ==
    /\ sweepLoop[svc] = "select"
    /\ cleanupExpiredRules

\* startCleanupScheduler: the select takes "case <-ctx.Done()" (nothing
\* ever sends on or closes stopCleanup)
SweeperExit(svc) ==
    /\ sweepLoop[svc] = "select"
    /\ ctxDone
    /\ sweepLoop' = [sweepLoop EXCEPT ![svc] = "exited"]
    /\ result' = NoResult
    /\ lastCmds' = {}
    /\ UNCHANGED <<clock, config, blockedIPs, totalBlocks, firewall, mu, pc, local,
                   scanPending, restarts, installName, ctxDone, isRunning, scanLoop,
                   scanStage, scansRunning, winVars, libVars>>

\* monitorCancel(): shutdown is signalled
Cancel ==
    /\ ~ctxDone
    /\ ctxDone' = TRUE
    /\ result' = NoResult
    /\ lastCmds' = {}
    /\ UNCHANGED <<clock, config, blockedIPs, totalBlocks, firewall, mu, pc, local,
                   scanPending, restarts, installName, isRunning, scanLoop, scanStage,
                   scansRunning, sweepLoop, winVars, libVars>>

\* the scan path of service svc inside parseEventLogOutput
ScanBody(svc) ==
    /\ scanStage[svc] = "parse"
    /\ \/ ScanSkipWhitelisted(svc)
       \/ ScanBlockIP(svc)
       \/ BlockIPRecord(svc)

MonitorNext ==
    \/ \E svc \in Services : StartLogMonitoring(svc)
    \/ \E svc \in Services : ScanDispatch(svc)
    \/ \E svc \in Services : QueryReturn(svc)
    \/ \E svc \in Services : ScanBody(svc)
    \/ \E svc \in Services : ScanReturn(svc)
    \/ \E svc \in Services : ScannerExit(svc)
    \/ \E svc \in Services : SweeperRun(svc)
    \/ \E svc \in Services : SweeperExit(svc)
    \/ Cancel
    \/ Tick

\* The scheduling the code gives its goroutines: a command that returns is
\* waited for, a scan that can go on does (sync.Mutex does not starve a
\* waiter), and a select with a cancelled context ready takes that case
\* sooner or later.  Nothing makes a command return that does not return by
\* itself.
\* the daemon is started with the default rule_name_template
MonitorInit == Init /\ config.RuleNameTemplate = << >>

MonitorSpec ==
    /\ MonitorInit
    /\ [][MonitorNext]_vars
    /\ \A svc \in Services :
          /\ WF_vars(QueryReturn(svc))
          /\ SF_vars(ScanBody(svc))
          /\ WF_vars(ScanReturn(svc))
          /\ SF_vars(ScannerExit(svc))
          /\ SF_vars(SweeperExit(svc))

----------------------------------------------------------------------------
(* The event log and the sliding window.  An event is a failed logon        *)
(* (Event ID 4625) with its source address and the time the log gave it;    *)
(* the log holds no two events with the same source and time.               *)

\* a failed logon from ip is written to the Security log
LogEvent(ip) ==
    /\ [ip |-> ip, ts |-> clock] \notin eventLog
    /\ eventLog' = eventLog \cup {[ip |-> ip, ts |-> clock]}
    /\ result' = NoResult
    /\ lastCmds' = {}
    /\ UNCHANGED <<clock, config, blockedIPs, totalBlocks, firewall, mu, pc, local,
                   scanPending, restarts, installName, monVars, libVars, attackCounts,
                   scanBatch,
                   rescanned>>

\* "windowStart := currentTime.Add(-lookbackDuration)"
WindowStart(now) == now - Lookback

\* the filter "TimeCreated[@SystemTime>='<since>']" of the wevtutil query
QueryEvents(log, since) == {e \in log : e.ts >= since}

\* what "wevtutil qe ... /c:<limit>" prints of the matching events W: the
\* oldest first, up to the limit (events of one time in either order)
Batches(W) ==
    {B \in SUBSET W :
        /\ Cardinality(B) = IF Cardinality(W) < QueryLimit THEN Cardinality(W) ELSE QueryLimit
        /\ \A e \in B, f \in W \ B : e.ts <= f.ts}

StartCounts_Carried(prev) == prev

\* "attackCounts := make(map[string]int)": every parse starts from empty counts
StartCounts(prev) == [ip \in EventIPs |-> 0]

\* the loop over the event blocks: "attackCounts[attempt.IP]++" for each
CountEvents(prev, batch) ==
    [ip \in EventIPs |-> StartCounts(prev)[ip] + Cardinality({e \in batch : e.ip = ip})]

\* queryRecentEvents returned events and parseEventLogOutput counted them
WindowCount(s) ==
    \E batch \in Batches(QueryEvents(eventLog, WindowStart(clock))) :
       LET counts == CountEvents(attackCounts[s], batch) IN
       /\ attackCounts' = [attackCounts EXCEPT ![s] = counts]
       /\ scanBatch' = [scanBatch EXCEPT ![s] = batch]
       /\ rescanned' = [rescanned EXCEPT ![s] = batch \cap scanBatch[s]]
       /\ scanPending' = [scanPending EXCEPT ![s] = OverThreshold(counts)]

\* one tick of monitorWindowsEventLog against the event log: the query
\* fails and nothing is parsed, or its events are counted
WindowScan(s) ==
    /\ pc[s] = "idle"
    /\ scanPending[s] = {}
    /\ \/ UNCHANGED <<scanPending, attackCounts, scanBatch, rescanned>>
       \/ WindowCount(s)
    /\ result' = NoResult
    /\ lastCmds' = {}
    /\ UNCHANGED <<clock, config, blockedIPs, totalBlocks, firewall, mu, pc, local,
                   restarts, installName, monVars, libVars, eventLog>>

WindowNext ==
    \/ \E ip \in EventIPs : LogEvent(ip)
    \/ \E s \in Scanners : WindowScan(s)
    \/ \E s \in Scanners : ScanSkipWhitelisted(s)
    \/ \E s \in Scanners : ScanBlockIP(s)
    \/ \E s \in Scanners : BlockIPRecord(s)
    \/ cleanupExpiredRules
    \/ Tick

WindowSpec == Init /\ [][WindowNext]_vars

----------------------------------------------------------------------------
(* The configuration fields of the field reference: the provider under     *)
(* either setting of blocking.auto_unblock, and the scans under either      *)
(* setting of the RDP service's custom_threshold.                           *)

\* blocking.auto_unblock true or false
AutoUnblockConfigs ==
    [RuleNameTemplate : Templates, AutoUnblock : BOOLEAN, CustomThreshold : {0}]

\* direct calls, sweeps and restarts, as in LiveSpec
AutoUnblockSpec == InitWith(AutoUnblockConfigs) /\ [][LiveNext]_vars

\* the RDP service's custom_threshold unset (0) or set
CustomThresholdConfigs ==
    [RuleNameTemplate : Templates, AutoUnblock : {TRUE},
     CustomThreshold : {0, ServiceThreshold}]

\* the event log and the scans, as in WindowSpec
CustomThresholdSpec == InitWith(CustomThresholdConfigs) /\ [][WindowNext]_vars

----------------------------------------------------------------------------
(* The parser on one event text *)

ParseInit ==
    /\ ProviderInit(DefaultConfigs)
    /\ line \in Lines
    /\ attempt = NotParsed
    /\ QueryIdle
    /\ DetectorIdle
    /\ MockIdle
    /\ DaemonIdle
    /\ StorageIdle

\* p.ParseLine(line) is called and returns
ParseLineCall ==
    /\ attempt = NotParsed
    /\ attempt' = ParseLine(line, clock)
    /\ UNCHANGED <<provVars, monVars, winVars, line, queryVars, detVars, mockVars, daemonVars, storageVars>>

ParseNext == ParseLineCall \/ Tick

ParseSpec == ParseInit /\ [][ParseNext]_vars

----------------------------------------------------------------------------
(* queryRecentEvents on one window start *)

QueryInit ==
    /\ ProviderInit(DefaultConfigs)
    /\ ParseIdle
    /\ DetectorIdle
    /\ MockIdle
    /\ DaemonIdle
    /\ StorageIdle
    /\ sinceTime \in Times
    /\ sinceStr = NoText

\* queryRecentEvents(since, ...) builds the filter of its wevtutil query
QueryRecentEventsFilter ==
    /\ sinceStr = NoText
    /\ sinceStr' = sinceStr_UTC(sinceTime)
    /\ UNCHANGED <<provVars, monVars, winVars, parseVars, sinceTime, detVars, mockVars, daemonVars, storageVars>>

QueryNext == QueryRecentEventsFilter \/ Tick

QuerySpec == QueryInit /\ [][QueryNext]_vars

----------------------------------------------------------------------------
(* The threat detector under calls of ShouldBlock and UpdateWhitelist *)

\* NewBasicThreatDetector with the configured whitelist and a threshold of
\* at least 1
DetectorInit ==
    /\ ProviderInit(DefaultConfigs)
    /\ ParseIdle
    /\ QueryIdle
    /\ MockIdle
    /\ DaemonIdle
    /\ StorageIdle
    /\ threatConfig \in [FailureThreshold : 1 .. FailureThreshold, LookbackDuration : {Lookback}]
    /\ whitelistedIPs = updateWhitelist(WhitelistedIPs).whitelistedIPs
    /\ whitelistedNets = updateWhitelist(WhitelistedIPs).whitelistedNets
    /\ detResult = NoCall

\* d.ShouldBlock(ip, attempts) is called and returns
CallShouldBlock(ip, attempts) ==
    /\ detResult' = [op |-> "ShouldBlock", ip |-> ip, attempts |-> attempts,
                     now |-> clock, ret |-> ShouldBlock(ip, attempts, clock)]
    /\ UNCHANGED <<provVars, monVars, winVars, parseVars, queryVars, mockVars, daemonVars, storageVars,
                   whitelistedIPs, whitelistedNets, threatConfig>>

\* d.UpdateWhitelist(ips) is called and returns
UpdateWhitelist(ips) ==
    /\ whitelistedIPs' = updateWhitelist(ips).whitelistedIPs
    /\ whitelistedNets' = updateWhitelist(ips).whitelistedNets
    /\ detResult' = [op |-> "UpdateWhitelist", ips |-> ips, err |-> updateWhitelist(ips).err]
    /\ UNCHANGED <<provVars, monVars, winVars, parseVars, queryVars, mockVars, daemonVars, storageVars,
                   threatConfig>>

DetectorNext ==
    \/ \E ip \in DetectorIPs, attempts \in AttemptLists : CallShouldBlock(ip, attempts)
    \/ \E ips \in WhitelistInputs : UpdateWhitelist(ips)
    \/ Tick

DetectorSpec == DetectorInit /\ [][DetectorNext]_vars

----------------------------------------------------------------------------
(* The mock provider under concurrent calls *)

MockInit ==
    /\ ProviderInit(DefaultConfigs)
    /\ ParseIdle
    /\ QueryIdle
    /\ DetectorIdle
    /\ MockIdle
    /\ DaemonIdle
    /\ StorageIdle

\* p.BlockIP(ip, duration, reason) by goroutine g, from Lock to Unlock
MockBlockIP(g, ip, duration) ==
    /\ mockPc[g] = "idle"
    /\ mockReaders = {}
    /\ IF mockBlockedIPs[ip].exists
       THEN /\ mockResult' = [op |-> "BlockIP", ip |-> ip, ret |-> FALSE, err |-> "ErrIPAlreadyBlocked"]
            /\ UNCHANGED mockBlockedIPs
       ELSE /\ mockBlockedIPs' = [mockBlockedIPs EXCEPT
                    ![ip] = [exists |-> TRUE, blockedAt |-> clock, duration |-> duration]]
            /\ mockResult' = [op |-> "BlockIP", ip |-> ip, ret |-> TRUE, err |-> ""]
    /\ UNCHANGED <<provVars, monVars, winVars, parseVars, queryVars, detVars, daemonVars, storageVars,
                   mockReaders, mockPc, mockLocal>>

\* p.UnblockIP(ip) by goroutine g, from Lock to Unlock
MockUnblockIP(g, ip) ==
    /\ mockPc[g] = "idle"
    /\ mockReaders = {}
    /\ IF ~mockBlockedIPs[ip].exists
       THEN /\ mockResult' = [op |-> "UnblockIP", ip |-> ip, ret |-> FALSE, err |-> "ErrIPNotBlocked"]
            /\ UNCHANGED mockBlockedIPs
       ELSE /\ mockBlockedIPs' = [mockBlockedIPs EXCEPT ![ip] = NoBlockInfo]
            /\ mockResult' = [op |-> "UnblockIP", ip |-> ip, ret |-> TRUE, err |-> ""]
    /\ UNCHANGED <<provVars, monVars, winVars, parseVars, queryVars, detVars, daemonVars, storageVars,
                   mockReaders, mockPc, mockLocal>>

\* p.IsBlocked(ip) by goroutine g: `p.mu.RLock()`
MockIsBlockedRLock(g, ip) ==
    /\ mockPc[g] = "idle"
    /\ mockReaders' = mockReaders \cup {g}
    /\ mockPc' = [mockPc EXCEPT ![g] = "rlocked"]
    /\ mockLocal' = [mockLocal EXCEPT ![g] = ip]
    /\ UNCHANGED <<provVars, monVars, winVars, parseVars, queryVars, detVars, daemonVars, storageVars,
                   mockBlockedIPs, mockResult>>

\* IsBlocked under the read lock: the lookup and the expiry test; it returns
\* (the deferred RUnlock runs) or gives the read lock up for the cleanup
MockIsBlockedCheck(g) ==
    /\ mockPc[g] = "rlocked"
    /\ mockReaders' = mockReaders \ {g}
    /\ LET info == mockBlockedIPs[mockLocal[g]] IN
       IF ~info.exists
       THEN /\ mockResult' = [op |-> "IsBlocked", ip |-> mockLocal[g], ret |-> FALSE, err |-> ""]
            /\ mockPc' = [mockPc EXCEPT ![g] = "idle"]
       ELSE IF MockExpired(info, clock)
       THEN /\ mockPc' = [mockPc EXCEPT ![g] = "cleanup"]
            /\ UNCHANGED mockResult
       ELSE /\ mockResult' = [op |-> "IsBlocked", ip |-> mockLocal[g], ret |-> TRUE, err |-> ""]
            /\ mockPc' = [mockPc EXCEPT ![g] = "idle"]
    /\ UNCHANGED <<provVars, monVars, winVars, parseVars, queryVars, detVars, daemonVars, storageVars,
                   mockBlockedIPs, mockLocal>>

\* `delete(p.blockedIPs, ip)` in IsBlocked's cleanup
MockCleanupEntry(info, now) == NoBlockInfo

\* IsBlocked's cleanup: `p.mu.Lock(); delete(p.blockedIPs, ip); p.mu.Unlock()`
MockIsBlockedCleanup(g) ==
    /\ mockPc[g] = "cleanup"
    /\ mockReaders = {}
    /\ mockBlockedIPs' = [mockBlockedIPs EXCEPT
            ![mockLocal[g]] = MockCleanupEntry(@, clock)]
    /\ mockPc' = [mockPc EXCEPT ![g] = "relock"]
    /\ UNCHANGED <<provVars, monVars, winVars, parseVars, queryVars, detVars, daemonVars, storageVars,
                   mockReaders, mockLocal, mockResult>>

\* IsBlocked after its cleanup: `p.mu.RLock(); return false, nil` and the
\* deferred RUnlock
MockIsBlockedReturn(g) ==
    /\ mockPc[g] = "relock"
    /\ mockPc' = [mockPc EXCEPT ![g] = "idle"]
    /\ mockResult' = [op |-> "IsBlocked", ip |-> mockLocal[g], ret |-> FALSE, err |-> ""]
    /\ UNCHANGED <<provVars, monVars, winVars, parseVars, queryVars, detVars, daemonVars, storageVars,
                   mockBlockedIPs, mockReaders, mockLocal>>

MockNext ==
    \/ \E g \in Goroutines, ip \in IPs, d \in MockDurations : MockBlockIP(g, ip, d)
    \/ \E g \in Goroutines, ip \in IPs : MockUnblockIP(g, ip)
    \/ \E g \in Goroutines, ip \in IPs : MockIsBlockedRLock(g, ip)
    \/ \E g \in Goroutines : MockIsBlockedCheck(g)
    \/ \E g \in Goroutines : MockIsBlockedCleanup(g)
    \/ \E g \in Goroutines : MockIsBlockedReturn(g)
    \/ Tick

MockSpec == MockInit /\ [][MockNext]_vars

----------------------------------------------------------------------------
(* Daemon start requests, daemon processes and the PID file *)

DaemonInit ==
    /\ ProviderInit(DefaultConfigs)
    /\ ParseIdle
    /\ QueryIdle
    /\ DetectorIdle
    /\ MockIdle
    /\ DaemonIdle
    /\ StorageIdle

\* StartDaemonWithOptions, first statement: GetRunningPID.  A live daemon
\* in the PID file refuses the start; a stale PID file is removed.
StartDaemonCheck(r) ==
    /\ startPc[r] = "idle"
    /\ IF GetRunningPID_Running
       THEN /\ startResult' = [startResult EXCEPT ![r] = "already running"]
            /\ UNCHANGED <<pidFile, startPc>>
       ELSE /\ pidFile' = NoPID
            /\ startPc' = [startPc EXCEPT ![r] = "spawn"]
            /\ UNCHANGED startResult
    /\ UNCHANGED <<provVars, monVars, winVars, parseVars, queryVars, detVars, mockVars, storageVars,
                   daemons>>

\* StartDaemonWithOptions, `cmd.Start()`: the daemon process exists from
\* here on, with a process ID no live process has
StartDaemonSpawn(r, pid) ==
    /\ startPc[r] = "spawn"
    /\ daemons[pid] = "none"
    /\ daemons' = [daemons EXCEPT ![pid] = "spawned"]
    /\ startPc' = [startPc EXCEPT ![r] = "idle"]
    /\ startResult' = [startResult EXCEPT ![r] = "started"]
    /\ UNCHANGED <<provVars, monVars, winVars, parseVars, queryVars, detVars, mockVars, storageVars,
                   pidFile>>

\* RunMonitorWithOptions in the daemon process: WritePID, then monitoring
RunMonitorWithOptions(pid) ==
    /\ daemons[pid] = "spawned"
    /\ pidFile' = pid
    /\ daemons' = [daemons EXCEPT ![pid] = "monitoring"]
    /\ UNCHANGED <<provVars, monVars, winVars, parseVars, queryVars, detVars, mockVars, storageVars,
                   startPc, startResult>>

\* the daemon process ends: the deferred RemovePID removes the PID file
DaemonExit(pid) ==
    /\ daemons[pid] = "monitoring"
    /\ pidFile' = NoPID
    /\ daemons' = [daemons EXCEPT ![pid] = "exited"]
    /\ UNCHANGED <<provVars, monVars, winVars, parseVars, queryVars, detVars, mockVars, storageVars,
                   startPc, startResult>>

DaemonNext ==
    \/ \E r \in StartRequests : StartDaemonCheck(r)
    \/ \E r \in StartRequests, pid \in PIDs : StartDaemonSpawn(r, pid)
    \/ \E pid \in PIDs : RunMonitorWithOptions(pid)
    \/ \E pid \in PIDs : DaemonExit(pid)

DaemonSpec == DaemonInit /\ [][DaemonNext]_vars

----------------------------------------------------------------------------
(* The in-memory storage under SaveAttack and Clear *)

StorageInit ==
    /\ ProviderInit(DefaultConfigs)
    /\ ParseIdle
    /\ QueryIdle
    /\ DetectorIdle
    /\ MockIdle
    /\ DaemonIdle
    /\ StorageIdle

\* m.SaveAttack(attempt)
SaveAttack(a) ==
    /\ IndexSize(attacksByIP) < MaxSaves
    /\ IF ~IsValidIP(a)
       THEN /\ saveResult' = "invalid IP address"
            /\ UNCHANGED <<nextAttackID, attacks, attacksByIP>>
       ELSE LET id == SaveID(a, nextAttackID)
                attackCopy == [ID |-> id, IP |-> a.IP,
                               Timestamp |-> IF a.Timestamp = Nil THEN clock ELSE a.Timestamp]
            IN /\ nextAttackID' = IF a.ID = 0 THEN nextAttackID + 1 ELSE nextAttackID
               /\ attacks' = [attacks EXCEPT ![id] = attackCopy]
               /\ attacksByIP' = [attacksByIP EXCEPT ![a.IP] = Append(@, attackCopy)]
               /\ saveResult' = ""
    /\ UNCHANGED <<provVars, monVars, winVars, parseVars, queryVars, detVars, mockVars,
                   daemonVars>>

\* m.Clear()
StorageClear ==
    /\ nextAttackID' = 1
    /\ attacks' = [id \in AttackIDs |-> NoAttack]
    /\ attacksByIP' = [ip \in IPs |-> << >>]
    /\ UNCHANGED <<provVars, monVars, winVars, parseVars, queryVars, detVars, mockVars,
                   daemonVars, saveResult>>

StorageNext ==
    \/ \E a \in SaveInputs : SaveAttack(a)
    \/ StorageClear

StorageSpec == StorageInit /\ [][StorageNext]_vars

----------------------------------------------------------------------------
(* Properties *)

\* the number of Guardian-tagged rules of the host firewall whose remote IPs include ip
GuardianRuleCount(ip) ==
    FwSizeOf(firewall, {r \in DOMAIN firewall : r.tagged /\ ip \in r.remoteip})

\* membership of the configured whitelist, by address ranges
CidrRange(e) ==
    LET size == Pow2(e.host)
        low == e.base - (e.base % size)
    IN low .. (low + size - 1)

InWhitelist(ip) ==
    \E i \in DOMAIN WhitelistedIPs :
       \/ WhitelistedIPs[i].kind = "ip" /\ WhitelistedIPs[i].ip = ip
       \/ WhitelistedIPs[i].kind = "cidr" /\ ip \in CidrRange(WhitelistedIPs[i])

\* C1: after a successful BlockIP with d > 0, a sweep that runs after the
\* expiry (its delete command not failing for outside reasons) leaves
\* IsBlocked(ip) false and the rule BlockIP created gone from the firewall.
C1_RoundTrip ==
    \A cmd \in lastCmds :
       (cmd.by = "sweep" /\ cmd.cmdOk) =>
          /\ ~IsBlocked(cmd.ip)
          /\ ~\E r \in DOMAIN firewall : r.name = cmd.installed /\ cmd.ip \in r.remoteip

\* C2: every delete command of UnblockIP and cleanupExpiredRules names the
\* rule exactly as BlockIP named it when it installed the IP's current block.
C2_DeleteNamesInstalledRule ==
    \A cmd \in lastCmds : cmd.name = cmd.installed

\* C3: when the provider starts on a firewall that holds a Guardian-tagged
\* rule for ip, IsBlocked(ip) is true after startup.
C3_Reconciliation ==
    [][restarts' # restarts =>
         \A ip \in IPs : (GuardianRuleCount(ip) > 0)' => IsBlocked(ip)']_vars

\* C4: while an active block exists for an IP no BlockIP call for it succeeds
\* or gets as far as creating a firewall rule: each returns AlreadyBlocked,
\* and never two callers are past the add command together.
C4_DedupSafety ==
    /\ (result.op = "BlockIP" /\ result.activeBefore) => result.err = "IP_ALREADY_BLOCKED"
    /\ \A c \in Callers :
          pc[c] = "record" =>
             ~(local[c].ip \in DOMAIN blockedIPs /\ blockedIPs[local[c].ip].IsActive)
    /\ \A c1, c2 \in Callers : (pc[c1] = "record" /\ pc[c2] = "record") => c1 = c2

C4_Witness ==
    /\ result.op = "BlockIP"
    /\ result.by \in Scanners
    /\ result.activeBefore
    /\ result.err = "IP_ALREADY_BLOCKED"
    /\ GuardianRuleCount(result.ip) = 1

\* C5: the host firewall never holds two Guardian-tagged rules for one remote IP.
C5_OneRulePerIP == \A ip \in IPs : GuardianRuleCount(ip) <= 1

C7_ExpiredRuleEventuallyDeleted ==
    \A ip \in IPs :
       (/\ ip \in DOMAIN blockedIPs
        /\ blockedIPs[ip].IsActive
        /\ blockedIPs[ip].ExpiresAt # Nil
        /\ blockedIPs[ip].ExpiresAt < MaxTime
        /\ GuardianRuleCount(ip) > 0)
       ~> (GuardianRuleCount(ip) = 0)

\* C8: the scan path issues no BlockIP call for an IP that has an active,
\* unexpired block.
C8_NoCallWhileBlocked ==
    (result.op = "BlockIP" /\ result.by \in Scanners) => ~result.unexpiredBefore

\* C9: at every clock value IsBlocked(ip) is true iff ListBlockedIPs contains ip.
C9_IsBlockedIffListed == \A ip \in IPs : IsBlocked(ip) <=> ip \in ListBlockedIPs

\* C10: BlockIP returns AlreadyBlocked on account of an in-memory record only
\* if that record's expiry has not passed.
C10_AlreadyBlockedOnlyIfUnexpired ==
    (result.op = "BlockIP" /\ result.err = "IP_ALREADY_BLOCKED" /\ result.why = "record")
       => ~result.expiredBefore

\* C11: when the netsh add command fails inside BlockIP, BlockIP returns the
\* firewall-operation error and leaves the block table, the block counter and
\* the host firewall exactly as they were, with no active record for the IP.
C11_AddFailureLeavesNoState ==
    [][(result'.op = "BlockIP" /\ result'.err = "FIREWALL_OPERATION") =>
          /\ blockedIPs' = blockedIPs
          /\ totalBlocks' = totalBlocks
          /\ firewall' = firewall
          /\ ~HasActiveRecord(blockedIPs', result'.ip, clock')]_vars

C11_Witness ==
    /\ result.op = "BlockIP"
    /\ result.err = "FIREWALL_OPERATION"
    /\ result.ip \in IPs
    /\ result.ip \notin DOMAIN blockedIPs
    /\ GuardianRuleCount(result.ip) = 0

\* C12: when the delete command fails, UnblockIP returns the error and the
\* record stays active and unchanged; a sweep whose delete fails leaves the
\* record as it was, and every run of the sweep issues a delete for each
\* active record whose expiry has passed, so the delete is attempted again
\* by every later run until one succeeds.
C12_DeleteFailureRetainsAndRetries ==
    [][/\ (result'.op = "UnblockIP" /\ result'.err = "FIREWALL_OPERATION") =>
             /\ blockedIPs' = blockedIPs
             /\ blockedIPs[result'.ip].IsActive
       /\ cleanupExpiredRules =>
             /\ \A ip \in DOMAIN blockedIPs :
                   (/\ blockedIPs[ip].IsActive
                    /\ blockedIPs[ip].ExpiresAt # Nil
                    /\ blockedIPs[ip].ExpiresAt < clock)
                   => \E cmd \in lastCmds' : cmd.by = "sweep" /\ cmd.ip = ip
             /\ \A cmd \in lastCmds' :
                   (cmd.by = "sweep" /\ ~cmd.cmdOk) =>
                      /\ blockedIPs'[cmd.ip] = blockedIPs[cmd.ip]
                      /\ blockedIPs'[cmd.ip].IsActive]_vars

\* a sweep has just failed to delete the rule of an expired block whose
\* record is still active
C12_Witness ==
    \E cmd \in lastCmds :
       /\ cmd.by = "sweep"
       /\ ~cmd.cmdOk
       /\ blockedIPs[cmd.ip].IsActive
       /\ blockedIPs[cmd.ip].ExpiresAt < clock
       /\ GuardianRuleCount(cmd.ip) > 0

\* C13: one run of the sweep at time now issues a delete for every active
\* block with expires_at <= now, whether or not the delete for another block
\* of the same run failed.
C13_SweepAttemptsEveryExpired ==
    [][cleanupExpiredRules =>
          \A ip \in DOMAIN blockedIPs :
             (/\ blockedIPs[ip].IsActive
              /\ blockedIPs[ip].ExpiresAt # Nil
              /\ blockedIPs[ip].ExpiresAt <= clock)
             => \E cmd \in lastCmds' : cmd.by = "sweep" /\ cmd.ip = ip]_vars

\* every field of a block record as BlockIP writes it
RecordComplete(rec, ip) ==
    /\ DOMAIN rec = {"IP", "ExpiresAt", "Service", "AttackCount", "IsActive"}
    /\ rec.IP = ip
    /\ rec.ExpiresAt = Nil \/ rec.ExpiresAt \in 0 .. (MaxTime + BlockDuration)
    /\ rec.Service = "RDP"
    /\ rec.AttackCount = 1
    /\ rec.IsActive \in BOOLEAN

\* C14: the sweep never runs while a BlockIP call is between its add command
\* and its record write, and every record the block table holds is one that
\* BlockIP wrote whole after its add command succeeded.
C14_SweeperSeesCompleteRecords ==
    /\ (\E c \in Callers : pc[c] = "record") => ~ENABLED cleanupExpiredRules
    /\ \A ip \in DOMAIN blockedIPs : RecordComplete(blockedIPs[ip], ip)
    /\ \A c \in Callers :
          pc[c] = "record" => ~HasActiveRecord(blockedIPs, local[c].ip, clock)

\* an install is in progress (rule added, record not yet written) while the
\* table holds a finished record whose expiry has passed
C14_Witness ==
    /\ \E c \in Callers : pc[c] = "record" /\ mu = c
    /\ \E ip \in DOMAIN blockedIPs : IsExpiredActive(blockedIPs[ip], clock)

\* the cleanup scheduler goroutines that are running
RunningSweepers == {svc \in Services : sweepLoop[svc] = "select"}

\* C15: at most one sweeper task runs in the process, however many services
\* are enabled and however often StartLogMonitoring is called.
C15_OneSweeper == Cardinality(RunningSweepers) <= 1

\* C16: for each service at most one scan (query, parse, block) is in
\* progress: no scan starts before the previous one has returned.
C16_ScansSerialPerService == \A svc \in Services : scansRunning[svc] <= 1

\* both services are in the middle of a scan, each with its monitor loop
\* waiting inside the call
C16_Witness ==
    \A svc \in Services :
       /\ scanLoop[svc] = "call"
       /\ scansRunning[svc] = 1
       /\ scanStage[svc] = "parse"
       /\ scanPending[svc] # {}

\* every monitoring goroutine that was started has returned
AllTasksDone ==
    \A svc \in Services :
       /\ scanLoop[svc] \in {"none", "exited"}
       /\ sweepLoop[svc] \in {"none", "exited"}

\* C17: once the monitoring context is cancelled, every scanner task and
\* every sweeper task terminates, also when the cancellation arrives while a
\* command of theirs is in flight.
C17_ShutdownTerminates == ctxDone ~> AllTasksDone

\* the failure events from ip inside the lookback window at time now
InWindow(ip, now) == {e \in eventLog : e.ip = ip /\ now - e.ts <= Lookback}

\* C18: at every scan at time t the count the scanner uses for an IP is the
\* number of failure events from it with t - timestamp <= lookback.
C18_WindowCount ==
    [][\A s \in Scanners :
          WindowCount(s) =>
             \A ip \in EventIPs : attackCounts'[s][ip] = Cardinality(InWindow(ip, clock))]_vars

\* C19: the scanner blocks no IP whose in-window count is below the
\* threshold; and a scan that finds a non-whitelisted IP without an active
\* block at or above the threshold goes on to block it, after which the
\* firewall holds exactly one rule for it and the list exactly one entry.
C19_ThresholdBlocking ==
    [][/\ \A s \in Scanners :
             WindowCount(s) =>
                \A ip \in EventIPs :
                   /\ ip \in scanPending'[s] => Cardinality(InWindow(ip, clock)) >= Threshold
                   /\ (/\ Cardinality(InWindow(ip, clock)) >= Threshold
                       /\ ~InWhitelist(ip)
                       /\ ~HasActiveRecord(blockedIPs, ip, clock))
                      => ip \in scanPending'[s]
       /\ \A ip \in EventIPs :
             (/\ result'.op = "BlockIP"
              /\ result'.by \in Scanners
              /\ result'.ip = ip
              /\ result'.err = "") =>
                /\ GuardianRuleCount(ip)' = 1
                /\ ip \in ListBlockedIPs']_vars

\* C20: in any scan each distinct event adds at most 1 to its IP's count,
\* also when the scan before returned the same event.
C20_NoDoubleCount ==
    \A s \in Scanners, ip \in EventIPs :
       attackCounts[s][ip] <= Cardinality({e \in scanBatch[s] : e.ip = ip})

\* a scan returned an event that the scan before it had returned as well,
\* and counted it
C20_Witness ==
    \E s \in Scanners : \E e \in rescanned[s] :
       /\ e \in scanBatch[s]
       /\ attackCounts[s][e.ip] >= 1

\* the values of blocking.failure_threshold compared: unset or negative ones
\* and those up to one above the configured one
ThresholdValues == (0 - 1) .. (FailureThreshold + 1)

\* C21: with the same events counted, lowering failure_threshold never takes
\* an IP out of the set a scan blocks: every IP the scan calls BlockIP for
\* under a threshold it also calls BlockIP for under every lower threshold.
C21_LowerThresholdBlocksMore ==
    [][\A s \in Scanners :
          WindowCount(s) =>
             \A lo, hi \in ThresholdValues :
                lo <= hi => ScanTargets(attackCounts'[s], hi)
                               \subseteq ScanTargets(attackCounts'[s], lo)]_vars

\* a scan has counted events that put an IP at or above the configured
\* threshold and is about to block it
C21_Witness ==
    \E s \in Scanners :
       /\ scanBatch[s] # {}
       /\ ScanTargets(attackCounts[s], FailureThreshold) # {}
       /\ ScanTargets(attackCounts[s], FailureThreshold) \subseteq scanPending[s]

\* ip has a block installed with duration 0: an active record with no expiry
PermanentBlock(ip) ==
    /\ ip \in DOMAIN blockedIPs
    /\ blockedIPs[ip].IsActive
    /\ blockedIPs[ip].ExpiresAt = Nil

\* C22: a block installed with duration 0 is permanent: while the provider
\* that installed it runs, no sweep deletes its firewall rule or changes its
\* record, and IsBlocked(ip) stays true through every step that is not a
\* successful UnblockIP(ip).
C22_PermanentBlock ==
    [][\A ip \in IPs :
          (PermanentBlock(ip) /\ restarts' = restarts) =>
             /\ cleanupExpiredRules =>
                   /\ blockedIPs'[ip] = blockedIPs[ip]
                   /\ GuardianRuleCount(ip)' = GuardianRuleCount(ip)
             /\ ~(result'.op = "UnblockIP" /\ result'.ip = ip /\ result'.err = "")
                   => IsBlocked(ip)']_vars

\* ip has a block of bounded duration: an active record with an expiry
TimedBlock(ip) ==
    /\ ip \in DOMAIN blockedIPs
    /\ blockedIPs[ip].IsActive
    /\ blockedIPs[ip].ExpiresAt # Nil

\* C23: a block BlockIP installs at time t0 with duration d > 0 expires at
\* t0 + d, and while the provider that installed it runs and nobody unblocks
\* it, IsBlocked(ip) is true and ListBlockedIPs contains ip at every time
\* before t0 + d, and IsBlocked(ip) is false and ListBlockedIPs omits ip at
\* every time after t0 + d, whether or not the sweep has run.
C23_ExpiryByClock ==
    [][\A ip \in IPs :
          /\ \A c \in Callers :
                (pc[c] = "record" /\ BlockIPRecord(c) /\ local[c].ip = ip
                    /\ local[c].duration > 0) =>
                   /\ blockedIPs'[ip].ExpiresAt = clock + local[c].duration
                   /\ IsBlocked(ip)'
                   /\ ip \in ListBlockedIPs'
          /\ (/\ TimedBlock(ip)
              /\ restarts' = restarts
              /\ ~(result'.op = "UnblockIP" /\ result'.ip = ip /\ result'.err = "")) =>
                 /\ clock' < blockedIPs[ip].ExpiresAt =>
                       (IsBlocked(ip)' /\ ip \in ListBlockedIPs')
                 /\ clock' > blockedIPs[ip].ExpiresAt =>
                       (~IsBlocked(ip)' /\ ip \notin ListBlockedIPs')]_vars

\* the expiry of a block has passed and the sweep has not removed it: its
\* record is still active and its rule still in the firewall
C23_Witness ==
    \E ip \in IPs :
       /\ TimedBlock(ip)
       /\ clock > blockedIPs[ip].ExpiresAt
       /\ GuardianRuleCount(ip) > 0
       /\ ~IsBlocked(ip)

\* C24: when UnblockIP(ip) is called for an IP that BlockIP blocked and the
\* firewall works (the delete command does not fail for outside reasons),
\* UnblockIP succeeds, IsBlocked(ip) is false, ListBlockedIPs omits ip and the
\* firewall holds no Guardian rule for ip.
C24_BlockThenUnblock ==
    \A cmd \in lastCmds :
       (cmd.by = "unblock" /\ cmd.cmdOk) =>
          /\ result.op = "UnblockIP"
          /\ result.err = ""
          /\ ~IsBlocked(cmd.ip)
          /\ cmd.ip \notin ListBlockedIPs
          /\ GuardianRuleCount(cmd.ip) = 0

\* C25: UnblockIP(ip) for an IP without an active block returns NotBlocked,
\* issues no firewall command and leaves the block table, the firewall and
\* the counters as they were.
C25_UnblockNotBlocked ==
    [][\A ip \in IPs :
          (UnblockIP("api", ip) /\ ~HasActiveRecord(blockedIPs, ip, clock)) =>
             /\ result'.op = "UnblockIP"
             /\ result'.err = "IP_NOT_BLOCKED"
             /\ lastCmds' = {}
             /\ blockedIPs' = blockedIPs
             /\ firewall' = firewall
             /\ totalBlocks' = totalBlocks
             /\ installName' = installName]_vars

\* UnblockIP has just returned NotBlocked for an IP whose record is there
\* but inactive, with a Guardian rule for another IP in the firewall
C25_Witness ==
    /\ result.op = "UnblockIP"
    /\ result.err = "IP_NOT_BLOCKED"
    /\ result.ip \in DOMAIN blockedIPs
    /\ ~blockedIPs[result.ip].IsActive
    /\ \E ip \in IPs \ {result.ip} : GuardianRuleCount(ip) > 0

\* C26: when the event-log query of a scan fails, the failure changes no
\* state of the provider or the firewall, the scan calls BlockIP for no IP,
\* and the scanner goes on: the failed scan can return, it returns to the
\* select of the monitor loop, and there the next tick starts a query again.
C26_QueryFailureSkipsScan ==
    [][\A svc \in Services :
          /\ (scanStage[svc] = "query" /\ scanStage'[svc] = "failed") =>
                /\ blockedIPs' = blockedIPs
                /\ firewall' = firewall
                /\ totalBlocks' = totalBlocks
                /\ scanPending'[svc] = {}
                /\ pc' = pc
                /\ scanLoop' = scanLoop
          /\ scanStage[svc] = "failed" =>
                /\ scanLoop[svc] = "call"
                /\ ENABLED ScanReturn(svc)
                /\ pc'[svc] = "idle"
                /\ result'.op = "BlockIP" => result'.by # svc
                /\ scanStage'[svc] # "failed" =>
                      /\ scanLoop'[svc] = "select"
                      /\ scansRunning'[svc] = 0
          /\ (scanLoop[svc] = "select" /\ scansRunning[svc] = 0) =>
                ENABLED ScanDispatch(svc)]_vars

\* the query of a scan has failed while the other service is in the middle
\* of blocking the IPs its scan found
C26_Witness ==
    \E svc, other \in Services :
       /\ scanStage[svc] = "failed"
       /\ scansRunning[svc] = 1
       /\ scanStage[other] = "parse"
       /\ scanPending[other] # {}

\* C27: a BlockIP call of a scan that fails stops neither the scan nor the
\* scanner: the other IPs of the scan stay to be handled and the scan can go
\* on with them, an IP leaves the scan's list only through a BlockIP call
\* for it (or, whitelisted, by being skipped), the failure leaves nothing
\* behind that would keep a later scan from installing the block, and the
\* scan returns to the loop that starts the next one.
C27_BlockFailureDoesNotStopScan ==
    [][\A svc \in Services :
          /\ (result'.op = "BlockIP" /\ result'.by = svc /\ result'.err # "") =>
                /\ scanPending'[svc] = scanPending[svc] \ {result'.ip}
                /\ scanStage'[svc] = "parse"
                /\ scanLoop'[svc] = "call"
                /\ pc'[svc] = "idle"
                /\ mu' = mu
                /\ result'.err = "FIREWALL_OPERATION" =>
                      /\ blockedIPs' = blockedIPs
                      /\ firewall' = firewall
          /\ \A ip \in scanPending[svc] \ scanPending'[svc] :
                \/ /\ result'.by = svc /\ result'.ip = ip
                   /\ \/ result'.op = "BlockIP"
                      \/ result'.op = "skip" /\ isWhitelistedIP(ip)
                \/ pc'[svc] = "record" /\ local'[svc].ip = ip
          /\ (scanStage[svc] = "parse" /\ pc[svc] = "idle" /\ mu = NoOne) =>
                IF scanPending[svc] # {} THEN ENABLED ScanBody(svc)
                                         ELSE ENABLED ScanReturn(svc)]_vars

\* the add command of a scan's BlockIP has just failed for one IP while
\* another IP that is not whitelisted is still on the scan's list
C27_Witness ==
    \E svc \in Services :
       /\ result.op = "BlockIP"
       /\ result.by = svc
       /\ result.err = "FIREWALL_OPERATION"
       /\ scanStage[svc] = "parse"
       /\ \E ip \in scanPending[svc] : ip # result.ip /\ ~isWhitelistedIP(ip)

\* C28: the number of blocks that are active at one time never exceeds
\* blocking.max_concurrent_blocks.
C28_MaxConcurrentBlocks == Cardinality(ListBlockedIPs) <= MaxConcurrentBlocks

\* C29: with blocking.auto_unblock false a sweep removes no expired block
\* (it issues no delete command and changes neither the block table nor the
\* firewall); with it true a sweep sets about removing every active block
\* whose expiry has passed.
C29_AutoUnblock ==
    [][cleanupExpiredRules =>
          IF ~config.AutoUnblock
          THEN /\ lastCmds' = {}
               /\ blockedIPs' = blockedIPs
               /\ firewall' = firewall
          ELSE \A ip \in DOMAIN blockedIPs :
                  IsExpiredActive(blockedIPs[ip], clock) =>
                     \E cmd \in lastCmds' : cmd.by = "sweep" /\ cmd.ip = ip]_vars

\* the threshold the field reference gives a service: its custom_threshold
\* when that is > 0, blocking.failure_threshold otherwise
DocumentedThreshold == IF config.CustomThreshold > 0 THEN config.CustomThreshold ELSE Threshold

\* C30: a scan of a service whose custom_threshold is > 0 takes up for
\* blocking the IPs with at least custom_threshold failures; with
\* custom_threshold 0 those with at least blocking.failure_threshold.
C30_CustomThreshold ==
    [][\A s \in Scanners :
          WindowCount(s) =>
             scanPending'[s] = OverThresholdAt(attackCounts'[s], DocumentedThreshold)]_vars

\* an IPv4 literal: four octets with dots between
ValidIPv4(text) ==
    /\ Len(text) = 7
    /\ \A i \in 1 .. 7 : IF i % 2 = 1 THEN text[i] \in Octets ELSE text[i] = "."

\* an IPv6 literal of the short forms the model uses: groups of hex digits
\* around one "::"
ValidIPv6(text) ==
    /\ Len(text) \in 3 .. 4
    /\ text[Len(text) - 2] = ":"
    /\ text[Len(text) - 1] = ":"
    /\ text[Len(text)] \in DigitRuns \cup {"fe80"}
    /\ Len(text) = 4 => text[1] \in {"2001", "fe80"}

\* net.ParseIP accepts the text
ValidIP(text) == ValidIPv4(text) \/ ValidIPv6(text)

\* the local/loopback sentinels
LocalSentinels ==
    { << "-" >>, << "127", ".", "0", ".", "0", ".", "1" >>, << ":", ":", "1" >> }

\* C31: every attack record ParseLine returns has a source IP that is a
\* valid IP address and none of the local/loopback sentinels, and an event
\* whose source address is absent, unparseable or a sentinel yields no record.
C31_ParsedIPValid ==
    /\ attempt.status = "attempt" =>
          /\ ValidIP(attempt.IP)
          /\ attempt.IP \notin LocalSentinels
    /\ (/\ attempt # NotParsed
        /\ \/ line.source = << >>
           \/ ~ValidIP(line.source)
           \/ line.source \in LocalSentinels)
       => attempt = NoAttempt

\* C32: the lower time bound in the event-log query is the window start as
\* UTC wall-clock time with the Z suffix, whatever zone the window start
\* came in.
C32_LowerBoundUTC ==
    sinceStr # NoText => sinceStr = [wall |-> sinceTime.instant, suffix |-> "Z"]

\* a query was built for a window start in a zone east or west of UTC
C32_Witness == sinceStr # NoText /\ sinceTime.offset # 0

\* the attempts of a history that lie inside the lookback duration at now
InsideLookback(attempts, now) ==
    {i \in DOMAIN attempts : now - attempts[i].Timestamp <= Lookback}

InvalidEntry(e) == IF e.kind = "cidr" THEN ~ParseCIDROk(e) ELSE ~ParseIPOk(e.ip)

\* C38: UpdateWhitelist with a list that contains an invalid entry returns
\* an error and leaves the previously installed whitelist fully in force.
C38_UpdateWhitelistAtomic ==
    [][\A ips \in WhitelistInputs :
         (UpdateWhitelist(ips) /\ \E i \in DOMAIN ips : InvalidEntry(ips[i])) =>
            /\ detResult'.err # ""
            /\ \A ip \in DetectorIPs : IsWhitelisted(ip)' = IsWhitelisted(ip)]_vars

\* C36: in the mock provider, under every interleaving of IsBlocked, BlockIP
\* and UnblockIP calls, the cleanup of IsBlocked removes only an entry that
\* has expired: it never deletes a block that has not.
C36_MockCleanupOnlyExpired ==
    [][\A g \in Goroutines :
         MockIsBlockedCleanup(g) =>
            \A ip \in IPs :
               (mockBlockedIPs[ip].exists /\ ~MockExpired(mockBlockedIPs[ip], clock))
                  => mockBlockedIPs'[ip] = mockBlockedIPs[ip]]_vars

\* the block record and the rules of address o are the same before and
\* after the step
BlockUntouched(o) ==
    /\ o \in DOMAIN blockedIPs => (o \in DOMAIN blockedIPs' /\ blockedIPs'[o] = blockedIPs[o])
    /\ GuardianRuleCount(o)' = GuardianRuleCount(o)

\* C34: removing the block of one IP, by UnblockIP or by the sweep, never
\* deletes the firewall rule nor changes the block record of a different IP,
\* whatever the rule_name_template.
C34_RemovalFrame ==
    [][/\ \A ip \in IPs, o \in IPs :
            (o # ip /\ \E c \in Callers : UnblockIP(c, ip)) => BlockUntouched(o)
       /\ cleanupExpiredRules =>
            \A o \in IPs :
               (o \in DOMAIN blockedIPs => ~IsExpiredActive(blockedIPs[o], clock))
                  => BlockUntouched(o)]_vars

\* an active block whose expires_at is still in the future
UnexpiredBlock(ip) ==
    /\ ip \in DOMAIN blockedIPs
    /\ blockedIPs[ip].IsActive
    /\ blockedIPs[ip].ExpiresAt # Nil
    /\ ~After(clock, blockedIPs[ip].ExpiresAt)

\* C35: the sweep never deletes the firewall rule or deactivates the record
\* of a block whose expires_at is still in the future.
C35_SweepSparesUnexpired ==
    [][cleanupExpiredRules =>
          \A ip \in IPs :
             UnexpiredBlock(ip) =>
                /\ blockedIPs'[ip].IsActive
                /\ GuardianRuleCount(ip)' = GuardianRuleCount(ip)]_vars

\* C37: at most one Guardian daemon process is monitoring at any time,
\* under every interleaving of daemon start requests.
C37_SingleDaemon ==
    Cardinality({pid \in PIDs : daemons[pid] = "monitoring"}) <= 1

\* the places of the per-IP index that hold an attack of the ID
IndexPlaces(id) ==
    {<<ip, i>> \in IPs \X (1 .. MaxSaves) :
        i \in DOMAIN attacksByIP[ip] /\ attacksByIP[ip][i].ID = id}

\* C39: the attack table and the per-IP index hold the same attacks: every
\* stored attack is in the index exactly once, under its IP, and the index
\* holds nothing else, after any sequence of SaveAttack calls.
C39_IndexMatchesTable ==
    \A id \in AttackIDs :
       IF attacks[id] = NoAttack
       THEN IndexPlaces(id) = {}
       ELSE /\ Cardinality(IndexPlaces(id)) = 1
            /\ \A pl \in IndexPlaces(id) :
                  pl[1] = attacks[id].IP /\ attacksByIP[pl[1]][pl[2]] = attacks[id]

====
